---- MODULE Spec2Model ----
(***************************************************************************)
(* A model of the particle simulation engine of src/particle-layer.ts:     *)
(* the layer state (this.state), the GPU buffers it owns, the transform    *)
(* that runs the advection kernel, the age-shift copy and the source /     *)
(* target swap of one tick, the setTimeout scheduler, and the layer        *)
(* lifecycle handlers (initializeState, updateState, finalizeState, draw). *)
(*                                                                         *)
(* Buffers live in a heap keyed by a numeric handle.  A position buffer    *)
(* holds a sequence of xyz positions (one per instance); byte offsets and  *)
(* sizes of the code are kept in bytes and converted with PositionBytes.   *)
(* A destroyed buffer stays in the heap for as long as the layer state     *)
(* still refers to it, so that a use after destroy can be observed; a      *)
(* destroyed buffer nothing refers to is dropped from the heap.            *)
(***************************************************************************)
EXTENDS Integers, Sequences, FiniteSets, TLC

VARIABLES
    props,        \* this.props
    state,        \* this.state
    buffers,      \* the device's buffers: handle -> [data, destroyed]
    timers,       \* number of pending setTimeout callbacks
    lifecycle,    \* "constructed", "initialized" or "finalized"
    faults,       \* what went wrong so far (use after destroy, ...)
    last,         \* history: the handler that ran last, and its kernel output
    ticks,        \* history of the scenario specifications: kernel runs so far
    markerSlot    \* history of the mock kernel: the slot that got the marker

vars == <<props, state, buffers, timers, lifecycle, faults, last, ticks, markerSlot>>

-----------------------------------------------------------------------------
(* Bounds of the model *)

\* positions a trail history holds, numParticles * (maxAge + 1): the slots of
\* the source buffer and the oldest cohort, which only the target buffer keeps
MaxHistory == 4
\* the same, in the specifications that only tick (no props change)
TrailHistory == 6
\* kernel runs of the end-to-end scenario
E2ESteps == 2

-----------------------------------------------------------------------------
(* Values *)

\* DROP_POSITION, and every entry of a fresh Float32Array: xyz = (0, 0, 0)
Sentinel == <<0, 0, 0>>

\* an ordinary advected position, and the marker of the mock kernel
Advected == <<1, 0, 0>>
Marker == <<1, 1, 0>>

\* DEFAULT_COLOR
DEFAULT_COLOR == <<255, 255, 255, 255>>

\* a Float32 is 4 bytes and a position 3 of them: the "* 4 * 3" of the copy
PositionBytes == 4 * 3

\* `undefined` where the state holds a buffer
NoBuffer == 0

\* `undefined` where the state holds the transform
NoTransform == [sourcePosition |-> NoBuffer, targetPosition |-> NoBuffer,
                vertexCount |-> 0, destroyed |-> FALSE, exists |-> FALSE]

\* the image prop: null, a string (a URL not loaded yet), or a Texture
Images == {"null", "url", "texA", "texB"}
isTexture(image) == image \notin {"null", "url"}

\* timeline.getTime(): the reading previousTime starts from, and another.
\* The code only tests a reading for equality with the previous one.
Times == {0, 1}

\* viewport.zoom: the level previousViewportZoom starts from, and another.
\* The code only hands the zoom to the kernel and stores it.
Zooms == {0, 1}

\* The props a layer can be given.  Counts and width include 0 (invalid).
Counts == 0..MaxHistory
\* line widths: the code only tests a width for zero and for change
Widths == {0, 1}
bounded(p, history) == p.numParticles * (p.maxAge + 1) <= history

Props ==
    { p \in [image : Images, numParticles : Counts, maxAge : Counts,
             width : Widths, animate : BOOLEAN, color : {DEFAULT_COLOR}] :
        bounded(p, MaxHistory) }

\* this.state before anything was set on it: every field undefined
EmptyState ==
    [initialized |-> FALSE, numInstances |-> 0, numAgedInstances |-> 0,
     sourcePositions |-> NoBuffer, targetPositions |-> NoBuffer,
     colors |-> NoBuffer, transform |-> NoTransform,
     previousViewportZoom |-> 0, previousTime |-> 0,
     texture |-> "undefined", stepRequested |-> FALSE]

\* The machine an operation works on: the layer state, the heap, the faults,
\* the pending timer callbacks, and whether the kernel ran during the operation.
Machine ==
    [state |-> state, buffers |-> buffers, faults |-> faults,
     timers |-> timers, ran |-> FALSE]

-----------------------------------------------------------------------------
(* The device: buffers *)

\* new Float32Array(n * 3): n positions, all zero
zeros(n) == [i \in 1..n |-> Sentinel]

\* the handle of the next buffer: the least one not in the heap
freshHandle(heap) ==
    CHOOSE h \in 1..(Cardinality(DOMAIN heap) + 1) :
        h \notin DOMAIN heap /\ \A g \in 1..(h - 1) : g \in DOMAIN heap

\* a write that replaces the buffer's store by the data written
writeBufferReplacing(heap, h, data) ==
    IF h \in DOMAIN heap THEN [heap EXCEPT ![h].data = data] ELSE heap

\* device.createBuffer(data)
createBuffer(heap, data) ==
    heap @@ (freshHandle(heap) :> [data |-> data, destroyed |-> FALSE])

\* the positions a buffer holds; nothing when the handle names no buffer
dataOf(heap, h) == IF h \in DOMAIN heap THEN heap[h].data ELSE <<>>

\* whether buffer h holds a position other than the sentinel
holdsTrail(heap, h) == \E i \in DOMAIN dataOf(heap, h) : dataOf(heap, h)[i] # Sentinel

\* what an access to buffer h adds to the faults
access(heap, h) ==
    IF h \notin DOMAIN heap THEN {"TypeError"}
    ELSE IF heap[h].destroyed THEN {"useAfterDestroy"}
    ELSE {}

\* buffer.destroy()
destroyFaults(heap, h) ==
    IF h \notin DOMAIN heap THEN {"TypeError"}
    ELSE IF heap[h].destroyed THEN {"doubleDestroy"}
    ELSE {}

destroyBuffer(heap, h) ==
    IF h \in DOMAIN heap THEN [heap EXCEPT ![h].destroyed = TRUE] ELSE heap

\* the buffers the layer state refers to
referenced(s) ==
    {s.sourcePositions, s.targetPositions, s.colors,
     s.transform.sourcePosition, s.transform.targetPosition}

\* Handles are opaque: drop the destroyed buffers nothing refers to and
\* renumber the others 1..n in their order.
collect(m) ==
    LET s == m.state
        keep == { h \in DOMAIN m.buffers :
                    ~m.buffers[h].destroyed \/ h \in referenced(s) }
        new(h) == IF h \in keep THEN Cardinality({ g \in keep : g <= h }) ELSE h
        old(n) == CHOOSE h \in keep : new(h) = n
    IN  [m EXCEPT
            !.buffers = [n \in 1..Cardinality(keep) |-> m.buffers[old(n)]],
            !.state = [s EXCEPT !.sourcePositions = new(@),
                                !.targetPositions = new(@),
                                !.colors = new(@),
                                !.transform.sourcePosition = new(@),
                                !.transform.targetPosition = new(@)]]

\* No handler reads numInstances, numAgedInstances, texture or the previous*
\* fields of an uninitialized state before _setupTransformFeedback sets them
\* again: an uninitialized state keeps only the fields that are still read
\* (stepRequested) and the reference setState leaves behind (colors).
forget(m) ==
    IF m.state.initialized THEN m
    ELSE [m EXCEPT !.state = [EmptyState EXCEPT
                                !.stepRequested = m.state.stepRequested,
                                !.colors = m.state.colors]]

\* buffer.write(data): overwrite the first Len(data) positions
writeBuffer(heap, h, data) ==
    IF h \in DOMAIN heap
    THEN [heap EXCEPT ![h].data =
            [i \in 1..Len(@) |-> IF i <= Len(data) THEN data[i] ELSE @[i]]]
    ELSE heap

\* encoder.copyBufferToBuffer({sourceBuffer, sourceOffset, destinationBuffer,
\* destinationOffset, size}), offsets and size in bytes.  A range outside
\* either buffer is rejected by the device and copies nothing.
copyInRange(heap, src, srcOffset, dst, dstOffset, size) ==
    /\ src \in DOMAIN heap /\ dst \in DOMAIN heap
    /\ srcOffset >= 0 /\ dstOffset >= 0 /\ size >= 0
    /\ srcOffset + size <= Len(heap[src].data) * PositionBytes
    /\ dstOffset + size <= Len(heap[dst].data) * PositionBytes

copyBufferToBuffer(heap, src, srcOffset, dst, dstOffset, size) ==
    IF ~copyInRange(heap, src, srcOffset, dst, dstOffset, size) THEN heap
    ELSE LET from == srcOffset \div PositionBytes
             to == dstOffset \div PositionBytes
             n == size \div PositionBytes
         IN  [heap EXCEPT ![dst].data =
                [i \in 1..Len(@) |->
                    IF to < i /\ i <= to + n
                    THEN heap[src].data[i - to + from]
                    ELSE @[i]]]

-----------------------------------------------------------------------------
(* The layer: allocation and release *)

\* Math.floor(a / b) for b # 0, of either sign
floorDiv(a, b) == IF b > 0 THEN a \div b ELSE (0 - a) \div (0 - b)

\* The color buffer of _setupTransformFeedback: instance i (from 0) has age
\* floor(i / numParticles) and alpha color[3] * (1 - age / maxAge), every
\* channel divided by 255.  An entry keeps the channels over 255 and the
\* alpha as the fraction <<numerator, denominator>> over 255.
colorRamp(color, numParticles, maxAge, numInstances) ==
    [i \in 1..numInstances |->
        LET age == floorDiv(i - 1, numParticles)
        IN  [rgb |-> <<color[1], color[2], color[3]>>,
             alpha |-> <<color[4] * (maxAge - age), maxAge>>]]

\* a release that destroys the three buffers and leaves the state as it was
deleteKeepingState(m) ==
    IF ~m.state.initialized THEN m
    ELSE [m EXCEPT !.buffers = destroyBuffer(destroyBuffer(destroyBuffer(@,
                        m.state.sourcePositions), m.state.targetPositions),
                        m.state.colors)]

\* a release that destroys the two position buffers and not the colors
deleteLeakingColors(m) ==
    IF ~m.state.initialized THEN m
    ELSE [m EXCEPT
            !.buffers = destroyBuffer(destroyBuffer(@, m.state.sourcePositions),
                                      m.state.targetPositions),
            !.state = [m.state EXCEPT !.initialized = FALSE,
                                      !.sourcePositions = NoBuffer,
                                      !.targetPositions = NoBuffer,
                                      !.transform = NoTransform]]

\* a release without the `initialized` guard
deleteUnguarded(m) ==
    LET s == m.state
        b0 == m.buffers
        b1 == destroyBuffer(b0, s.sourcePositions)
        b2 == destroyBuffer(b1, s.targetPositions)
        b3 == destroyBuffer(b2, s.colors)
    IN  [m EXCEPT
           !.buffers = b3,
           !.faults = @ \cup destroyFaults(b0, s.sourcePositions)
                        \cup destroyFaults(b1, s.targetPositions)
                        \cup destroyFaults(b2, s.colors),
           !.state = [s EXCEPT !.initialized = FALSE,
                               !.sourcePositions = NoBuffer,
                               !.targetPositions = NoBuffer,
                               !.transform = NoTransform]]

\* _deleteTransformFeedback
deleteTransformFeedback(m) ==
    IF ~m.state.initialized THEN m
    ELSE LET s == m.state
             b0 == m.buffers
             b1 == destroyBuffer(b0, s.sourcePositions)
             b2 == destroyBuffer(b1, s.targetPositions)
             b3 == destroyBuffer(b2, s.colors)
         IN  [m EXCEPT
                !.buffers = b3,
                !.faults = @ \cup destroyFaults(b0, s.sourcePositions)
                             \cup destroyFaults(b1, s.targetPositions)
                             \cup destroyFaults(b2, s.colors),
                \* setState: colors is not among the fields set to undefined
                !.state = [s EXCEPT !.initialized = FALSE,
                                    !.sourcePositions = NoBuffer,
                                    !.targetPositions = NoBuffer,
                                    !.transform = NoTransform]]

\* the state _setupTransformFeedback sets once the buffers exist
allocatedState(s, p, numInstances, numAgedInstances, hSource, hTarget, hColors) ==
    [s EXCEPT !.initialized = TRUE,
              !.numInstances = numInstances,
              !.numAgedInstances = numAgedInstances,
              !.sourcePositions = hSource,
              !.targetPositions = hTarget,
              !.colors = hColors,
              !.transform = [sourcePosition |-> hSource,
                             targetPosition |-> hTarget,
                             vertexCount |-> p.numParticles,
                             destroyed |-> FALSE, exists |-> TRUE],
              !.texture = p.image,
              !.previousViewportZoom = 0,
              !.previousTime = 0]

\* _setupTransformFeedback, with this.props = p
setupTransformFeedback(m, p) ==
    LET m0 == IF m.state.initialized THEN deleteTransformFeedback(m) ELSE m
    IN  IF ~isTexture(p.image) THEN m0
        \* new Float32Array(numInstances * 3) throws on a negative length
        ELSE IF p.numParticles * p.maxAge < 0
        THEN [m0 EXCEPT !.faults = @ \cup {"RangeError"}]
        ELSE LET numInstances == p.numParticles * p.maxAge
                 numAgedInstances == p.numParticles * (p.maxAge - 1)
                 hSource == freshHandle(m0.buffers)
                 b1 == createBuffer(m0.buffers, zeros(numInstances))
                 hTarget == freshHandle(b1)
                 b2 == createBuffer(b1, zeros(numInstances))
                 hColors == freshHandle(b2)
                 b3 == createBuffer(b2, colorRamp(p.color, p.numParticles,
                                                  p.maxAge, numInstances))
             IN  [m0 EXCEPT
                    !.buffers = b3,
                    !.state = allocatedState(m0.state, p, numInstances,
                                             numAgedInstances,
                                             hSource, hTarget, hColors)]

\* the test at the top of updateState: a zero count or width is falsy
invalid(p) == p.numParticles = 0 \/ p.maxAge = 0 \/ p.width = 0

\* a rebuild test that also looks at the color
rebuildNeededOrColor(p, oldProps) ==
    \/ p.image # oldProps.image
    \/ p.numParticles # oldProps.numParticles
    \/ p.maxAge # oldProps.maxAge
    \/ p.width # oldProps.width
    \/ p.color # oldProps.color

\* a rebuild test that does not look at maxAge
rebuildNeededButMaxAge(p, oldProps) ==
    \/ p.image # oldProps.image
    \/ p.numParticles # oldProps.numParticles
    \/ p.width # oldProps.width

\* the test of updateState that decides a rebuild
rebuildNeeded(p, oldProps) ==
    \/ p.image # oldProps.image
    \/ p.numParticles # oldProps.numParticles
    \/ p.maxAge # oldProps.maxAge
    \/ p.width # oldProps.width

\* updateState({props: p, oldProps})
updateStateOp(m, p, oldProps) ==
    IF invalid(p) THEN deleteTransformFeedback(m)
    ELSE IF rebuildNeeded(p, oldProps) THEN setupTransformFeedback(m, p)
    ELSE m

-----------------------------------------------------------------------------
(* The layer: one tick *)

\* a kernel that writes its output over its input
transformRunInPlace(heap, transform, out) ==
    writeBuffer(heap, transform.sourcePosition, out)

\* transform.run(): the kernel reads the first vertexCount positions of the
\* transform's input buffer and writes its output, out, to the first
\* vertexCount positions of the feedback buffer.
transformRun(heap, transform, out) ==
    writeBuffer(heap, transform.targetPosition, out)

\* a copy of every cohort, the oldest included, at the offset of one cohort
ageShiftEveryCohort(heap, s, p) ==
    copyBufferToBuffer(heap, s.sourcePositions, 0, s.targetPositions,
                       p.numParticles * 4 * 3, s.numInstances * 4 * 3)

\* a copy of the aged cohorts without the offset of one cohort
ageShiftNoOffset(heap, s, p) ==
    copyBufferToBuffer(heap, s.sourcePositions, 0, s.targetPositions,
                       0, s.numAgedInstances * 4 * 3)

\* the age-shift copy of _runTransformFeedback, numParticles read from the props
ageShift(heap, s, p) ==
    copyBufferToBuffer(heap, s.sourcePositions, 0, s.targetPositions,
                       p.numParticles * 4 * 3, s.numAgedInstances * 4 * 3)

\* a swap of the state's buffers that leaves the transform's bindings
swappedStateOnly(s, time, zoom) ==
    [s EXCEPT !.sourcePositions = s.targetPositions,
              !.targetPositions = s.sourcePositions,
              !.previousViewportZoom = zoom,
              !.previousTime = time]

\* the two previous* fields without the swap
unswapped(s, time, zoom) ==
    [s EXCEPT !.previousViewportZoom = zoom, !.previousTime = time]

\* the swap at the end of _runTransformFeedback, and the two previous* fields
swapped(s, time, zoom) ==
    [s EXCEPT !.sourcePositions = s.targetPositions,
              !.targetPositions = s.sourcePositions,
              !.transform.sourcePosition = s.targetPositions,
              !.transform.targetPosition = s.sourcePositions,
              !.previousViewportZoom = zoom,
              !.previousTime = time]

\* a guard that lets every tick through
neverStale(s, time) == FALSE

\* the guard of _runTransformFeedback: timeline.getTime() === previousTime
stale(s, time) == time = s.previousTime

\* _runTransformFeedback, with this.props = p, timeline.getTime() = time,
\* viewport.zoom = zoom, and out what the kernel writes when it runs
runTransformFeedback(m, p, time, zoom, out) ==
    IF ~m.state.initialized THEN m
    ELSE IF stale(m.state, time) THEN m
    ELSE LET s == m.state
             b1 == transformRun(m.buffers, s.transform, out)
             b2 == ageShift(b1, s, p)
         IN  [m EXCEPT
                !.buffers = b2,
                !.faults = @ \cup access(m.buffers, s.transform.sourcePosition)
                             \cup access(m.buffers, s.transform.targetPosition)
                             \cup access(m.buffers, s.sourcePositions)
                             \cup access(m.buffers, s.targetPositions)
                             \cup (IF copyInRange(b1, s.sourcePositions, 0,
                                                  s.targetPositions,
                                                  p.numParticles * 4 * 3,
                                                  s.numAgedInstances * 4 * 3)
                                   THEN {} ELSE {"copyOutOfRange"}),
                !.state = swapped(s, time, zoom),
                !.ran = TRUE]

\* a reset that writes the source buffer only
resetSourceOnly(m) ==
    IF ~m.state.initialized THEN m
    ELSE [m EXCEPT !.buffers = writeBuffer(@, m.state.sourcePositions,
                                           zeros(m.state.numInstances))]

\* _resetTransformFeedback
resetTransformFeedback(m) ==
    IF ~m.state.initialized THEN m
    ELSE LET s == m.state
             b1 == writeBuffer(m.buffers, s.sourcePositions, zeros(s.numInstances))
             b2 == writeBuffer(b1, s.targetPositions, zeros(s.numInstances))
         IN  [m EXCEPT
                !.buffers = b2,
                !.faults = @ \cup access(m.buffers, s.sourcePositions)
                             \cup access(m.buffers, s.targetPositions)]

\* a request that schedules a callback whether or not one is requested
requestStepAlways(m) ==
    [m EXCEPT !.state.stepRequested = TRUE, !.timers = @ + 1]

\* requestStep: schedules the tick callback unless one is requested already
requestStepOp(m) ==
    IF m.state.stepRequested THEN m
    ELSE [m EXCEPT !.state.stepRequested = TRUE, !.timers = @ + 1]

\* a callback that runs step() and leaves the flag set
timerCallbackKeepingFlag(m, p, time, zoom, out) ==
    [runTransformFeedback(m, p, time, zoom, out) EXCEPT !.timers = @ - 1]

\* the callback requestStep hands to setTimeout: step(), then the flag is reset
timerCallback(m, p, time, zoom, out) ==
    LET m1 == runTransformFeedback(m, p, time, zoom, out)
    IN  [m1 EXCEPT !.state.stepRequested = FALSE, !.timers = @ - 1]

\* draw: binds the three buffers to the line model, then requests a step
drawOp(m, p) ==
    IF ~m.state.initialized THEN m
    ELSE LET s == m.state
             m1 == [m EXCEPT !.faults = @ \cup access(m.buffers, s.sourcePositions)
                                          \cup access(m.buffers, s.targetPositions)
                                          \cup access(m.buffers, s.colors)]
         IN  IF p.animate THEN requestStepOp(m1) ELSE m1

-----------------------------------------------------------------------------
(* The environment *)

\* what the advection kernel may write: a new position or the sentinel
KernelValues == {Sentinel, Advected}

\* the outputs of the kernel for a step at `time`: one position per vertex
\* when the step runs the kernel, nothing when it does not
kernelOutputs(s, time, values) ==
    IF s.initialized /\ ~stale(s, time)
    THEN [1..s.transform.vertexCount -> values]
    ELSE {<<>>}

\* a prop update: the host hands over the props with one of them changed,
\* or the same props again
propUpdates(p) ==
    { q \in { [p EXCEPT !.image = im] : im \in Images }
          \cup { [p EXCEPT !.numParticles = n] : n \in Counts }
          \cup { [p EXCEPT !.maxAge = a] : a \in Counts }
          \cup { [p EXCEPT !.width = w] : w \in Widths }
          \cup { [p EXCEPT !.animate = an] : an \in BOOLEAN } :
        bounded(q, MaxHistory) }

-----------------------------------------------------------------------------
(* Actions *)

\* The machine after a handler becomes the next state.  `last` records the
\* handler, the time and zoom it read and the kernel output (for a tick),
\* whether the layer was initialized before it, whether a position buffer held
\* a trail before it, and whether it changed anything.
Apply(m, op, out, time, zoom) ==
    \E c \in {collect(forget(m))} :
        /\ state' = c.state
        /\ buffers' = c.buffers
        /\ faults' = c.faults
        /\ timers' = c.timers
        /\ last' = [op |-> op, ran |-> c.ran, out |-> IF c.ran THEN out ELSE <<>>,
                    time |-> IF state.initialized THEN time ELSE 0,
                    zoom |-> IF state.initialized THEN zoom ELSE 0,
                    before |-> state.initialized,
                    dirty |-> \/ holdsTrail(buffers, state.sourcePositions)
                              \/ holdsTrail(buffers, state.targetPositions),
                    changed |-> <<c.state, c.buffers, c.timers>>
                                    # <<state, buffers, timers>>]

initializeState ==
    /\ lifecycle = "constructed"
    /\ lifecycle' = "initialized"
    /\ Apply(setupTransformFeedback(Machine, props), "initializeState", <<>>, 0, 0)
    /\ UNCHANGED <<props, ticks, markerSlot>>

updateState ==
    /\ lifecycle = "initialized"
    /\ \E q \in propUpdates(props) :
        /\ props' = q
        /\ Apply(updateStateOp(Machine, q, props), "updateState", <<>>, 0, 0)
    /\ UNCHANGED <<lifecycle, ticks, markerSlot>>

finalizeState ==
    /\ lifecycle = "initialized"
    /\ lifecycle' = "finalized"
    /\ Apply(deleteTransformFeedback(Machine), "finalizeState", <<>>, 0, 0)
    /\ UNCHANGED <<props, ticks, markerSlot>>

draw ==
    /\ lifecycle = "initialized"
    /\ Apply(drawOp(Machine, props), "draw", <<>>, 0, 0)
    /\ UNCHANGED <<props, lifecycle, ticks, markerSlot>>

requestStep ==
    /\ lifecycle = "initialized"
    /\ Apply(requestStepOp(Machine), "requestStep", <<>>, 0, 0)
    /\ UNCHANGED <<props, lifecycle, ticks, markerSlot>>

\* a pending callback fires; finalizeState does not cancel it
timerFires ==
    /\ timers > 0
    /\ \E time \in Times, zoom \in Zooms :
        \E out \in kernelOutputs(state, time, KernelValues) :
            Apply(timerCallback(Machine, props, time, zoom, out), "timer", out, time, zoom)
    /\ UNCHANGED <<props, lifecycle, ticks, markerSlot>>

step ==
    /\ lifecycle = "initialized"
    /\ \E time \in Times, zoom \in Zooms :
        \E out \in kernelOutputs(state, time, KernelValues) :
            Apply(runTransformFeedback(Machine, props, time, zoom, out), "step", out, time, zoom)
    /\ UNCHANGED <<props, lifecycle, ticks, markerSlot>>

clear ==
    /\ lifecycle = "initialized"
    /\ Apply(resetTransformFeedback(Machine), "clear", <<>>, 0, 0)
    /\ UNCHANGED <<props, lifecycle, ticks, markerSlot>>

-----------------------------------------------------------------------------
(* Specification: a layer with any props, driven by its host *)

NoOp == [op |-> "none", ran |-> FALSE, out |-> <<>>, time |-> 0, zoom |-> 0,
         before |-> FALSE, dirty |-> FALSE, changed |-> FALSE]

Init ==
    /\ props \in Props
    /\ state = EmptyState
    /\ buffers = <<>>
    /\ timers = 0
    /\ lifecycle = "constructed"
    /\ faults = {}
    /\ last = NoOp
    /\ ticks = 0
    /\ markerSlot = 0

Next ==
    \/ initializeState
    \/ updateState
    \/ finalizeState
    \/ draw
    \/ requestStep
    \/ timerFires
    \/ step
    \/ clear

Spec == Init /\ [][Next]_vars

-----------------------------------------------------------------------------
(* Specification: a valid layer that is allocated and then only ticks *)

\* valid props with a texture, no animation, and a longer trail history
TrailProps ==
    { p \in [image : {"texA"}, numParticles : 1..TrailHistory,
             maxAge : 1..TrailHistory, width : {1}, animate : {FALSE},
             color : {DEFAULT_COLOR}] :
        bounded(p, TrailHistory) }

InitTrail ==
    /\ props \in TrailProps
    /\ state = EmptyState
    /\ buffers = <<>>
    /\ timers = 0
    /\ lifecycle = "constructed"
    /\ faults = {}
    /\ last = NoOp
    /\ ticks = 0
    /\ markerSlot = 0

NextTrail ==
    \/ initializeState
    \/ step
    \/ clear

SpecTrail == InitTrail /\ [][NextTrail]_vars

-----------------------------------------------------------------------------
(* Specification: the same layer under a mock kernel that writes a marker *)

\* what the mock kernel writes on the ticks that do not write the marker
OtherValues == {Sentinel, Advected}

\* The outputs of the mock kernel.  Until it has written the marker it
\* writes either other values or the marker into one slot; afterwards only
\* other values.
mockOutputs(s, time) ==
    kernelOutputs(s, time, OtherValues)
        \cup IF ticks = 0
             THEN { out \in kernelOutputs(s, time, OtherValues \cup {Marker}) :
                        Cardinality({ i \in DOMAIN out : out[i] = Marker }) = 1 }
             ELSE {}

\* a step under the mock kernel; ticks counts the kernel runs from the one
\* that wrote the marker, up to maxAge + 1
mockStep ==
    /\ lifecycle = "initialized"
    /\ \E time \in Times, zoom \in Zooms :
        \E out \in mockOutputs(state, time) :
            /\ Apply(runTransformFeedback(Machine, props, time, zoom, out),
                     "step", out, time, zoom)
            /\ IF ~last'.ran THEN UNCHANGED <<ticks, markerSlot>>
               ELSE IF ticks = 0
               THEN IF \E i \in DOMAIN out : out[i] = Marker
                    THEN /\ ticks' = 1
                         /\ markerSlot' = CHOOSE i \in DOMAIN out : out[i] = Marker
                    ELSE UNCHANGED <<ticks, markerSlot>>
               ELSE /\ ticks' = IF ticks <= props.maxAge THEN ticks + 1 ELSE ticks
                    /\ UNCHANGED markerSlot
    /\ UNCHANGED <<props, lifecycle>>

NextMock ==
    \/ initializeState
    \/ mockStep

SpecMock == InitTrail /\ [][NextMock]_vars

-----------------------------------------------------------------------------
(* Specification: the end-to-end scenario, numParticles = 4 and maxAge = 3 *)

InitE2E ==
    /\ props = [image |-> "texA", numParticles |-> 4, maxAge |-> 3,
                width |-> 1, animate |-> FALSE, color |-> DEFAULT_COLOR]
    /\ state = EmptyState
    /\ buffers = <<>>
    /\ timers = 0
    /\ lifecycle = "constructed"
    /\ faults = {}
    /\ last = NoOp
    /\ ticks = 0
    /\ markerSlot = 0

\* a step of the scenario; ticks counts the kernel runs, at most E2ESteps
e2eStep ==
    /\ lifecycle = "initialized"
    /\ ticks < E2ESteps
    /\ \E time \in Times, zoom \in Zooms :
        \E out \in kernelOutputs(state, time, KernelValues) :
            /\ Apply(runTransformFeedback(Machine, props, time, zoom, out),
                     "step", out, time, zoom)
            /\ ticks' = IF last'.ran THEN ticks + 1 ELSE ticks
    /\ UNCHANGED <<props, lifecycle, markerSlot>>

NextE2E ==
    \/ initializeState
    \/ e2eStep

SpecE2E == InitE2E /\ [][NextE2E]_vars

-----------------------------------------------------------------------------
(* What the claims read *)

sourceData == dataOf(buffers, state.sourcePositions)
targetData == dataOf(buffers, state.targetPositions)

\* the index of slot p (from 1) of cohort k (from 0)
slotOf(k, p) == k * props.numParticles + p

\* position i of a buffer, the sentinel's opposite when the buffer is shorter
at(data, i) == IF i \in DOMAIN data THEN data[i] ELSE <<"none">>

\* the buffers that exist and are not destroyed
alive(heap) == { h \in DOMAIN heap : ~heap[h].destroyed }

-----------------------------------------------------------------------------
(* C1 *)

\* C1: a step that runs the kernel (initialized engine, time different from
\* previousTime) leaves in source cohort k, slot p, for every k in
\* 1..maxAge-1, what source cohort k-1 held in slot p before the step, and
\* in source cohort 0 exactly what the kernel wrote.
AgingStep ==
    [][ last'.ran =>
          LET before == sourceData
              after == dataOf(buffers', state'.sourcePositions)
          IN  /\ Len(after) = props.numParticles * props.maxAge
              /\ \A p \in 1..props.numParticles :
                    /\ at(after, slotOf(0, p)) = at(last'.out, p)
                    /\ \A k \in 1..(props.maxAge - 1) :
                          at(after, slotOf(k, p)) = at(before, slotOf(k - 1, p))
      ]_vars

\* a step has run on two particles and two cohorts, and cohort 1 now holds
\* an advected position in one slot and the sentinel in the other
AgingStepWitness ==
    /\ last.ran
    /\ props.numParticles = 2 /\ props.maxAge = 2
    /\ at(sourceData, slotOf(1, 1)) = Advected
    /\ at(sourceData, slotOf(1, 2)) = Sentinel
    /\ at(sourceData, slotOf(0, 1)) = Sentinel

-----------------------------------------------------------------------------
(* C2 *)

\* the kernel runs since the one that wrote the marker
ticksSinceMarker == ticks - 1

\* the indices of the source buffer that hold the marker
markerIndices == { i \in DOMAIN sourceData : sourceData[i] = Marker }

\* C2 as stated: N ticks after the mock kernel wrote the marker into slot p
\* of cohort 0, the marker is in the source buffer at cohort
\* min(N, maxAge - 1) of slot p, and gone from it once N >= maxAge.
MarkerAtClampedCohort ==
    (state.initialized /\ ticks >= 1) =>
        LET N == ticksSinceMarker
            k == IF N < props.maxAge - 1 THEN N ELSE props.maxAge - 1
        IN  /\ slotOf(k, markerSlot) \in markerIndices
            /\ N >= props.maxAge => markerIndices = {}

\* C2 amended: N ticks after the mock kernel wrote the marker into slot p of
\* cohort 0, the marker is in the source buffer at cohort N of slot p and
\* nowhere else while N <= maxAge - 1, and nowhere in it once N >= maxAge.
TrailLifetime ==
    (state.initialized /\ ticks >= 1) =>
        LET N == ticksSinceMarker
        IN  IF N <= props.maxAge - 1
            THEN markerIndices = {slotOf(N, markerSlot)}
            ELSE markerIndices = {}

\* the marker went into the second of two slots, aged through two cohorts
\* and has been dropped
TrailLifetimeWitness ==
    /\ state.initialized
    /\ props.numParticles = 2 /\ props.maxAge = 2
    /\ markerSlot = 2
    /\ ticksSinceMarker = props.maxAge
    /\ markerIndices = {}

-----------------------------------------------------------------------------
(* C3 *)

\* C3: a step or tick callback on an initialized engine at the time of the
\* previous step runs no kernel and changes neither the buffers nor the
\* state (previousTime and previousViewportZoom included), whatever the
\* zoom; the callback only resets stepRequested.
StaleTickIdempotent ==
    [][ (last'.op \in {"step", "timer"} /\ state.initialized
            /\ last'.time = state.previousTime) =>
          /\ ~last'.ran
          /\ buffers' = buffers
          /\ state' = IF last'.op = "timer"
                      THEN [state EXCEPT !.stepRequested = FALSE]
                      ELSE state
      ]_vars

\* a second step at the time of the first, with another zoom, has acted
StaleTickWitness ==
    /\ last.op = "step" /\ ~last.ran /\ ~last.changed
    /\ state.initialized
    /\ state.previousTime # 0
    /\ last.time = state.previousTime
    /\ last.zoom # state.previousViewportZoom
    /\ \E i \in DOMAIN sourceData : sourceData[i] # Sentinel

-----------------------------------------------------------------------------
(* C4 *)

\* C4: under every interleaving of the handlers at most one tick callback is
\* pending, stepRequested is set exactly when one is pending, and requestStep
\* (called directly or by draw) while stepRequested is set schedules nothing
\* and changes neither the state nor the buffers.
SchedulerReentrancy ==
    /\ timers = 0 /\ ~state.stepRequested
    /\ [][ /\ timers' \in {0, 1}
           /\ state'.stepRequested <=> timers' = 1
           /\ (last'.op \in {"requestStep", "draw"} /\ state.stepRequested) =>
                 /\ timers' = timers
                 /\ state' = state
                 /\ buffers' = buffers
       ]_vars

\* requestStep has been called on an initialized layer with a callback
\* pending, and changed nothing
SchedulerReentrancyWitness ==
    /\ last.op = "requestStep" /\ ~last.changed
    /\ state.initialized /\ state.stepRequested /\ timers = 1

-----------------------------------------------------------------------------
(* C5 *)

\* C5: releasing the buffers (finalizeState, updateState) and clear leave a
\* scheduled callback pending; no handler touches a buffer that is destroyed
\* or gone; a callback that fires on an uninitialized layer runs no kernel
\* and changes no buffer and no state but the stepRequested flag; and a
\* callback that runs the kernel changes only the two live position buffers
\* the state holds.
NoUseAfterDestroy ==
    /\ faults = {}
    /\ [][ /\ faults' \cap {"useAfterDestroy", "TypeError"} = {}
           /\ last'.op \in {"finalizeState", "updateState", "clear"} =>
                 timers' = timers
           /\ (last'.op = "timer" /\ ~state.initialized) =>
                 /\ ~last'.ran
                 /\ buffers' = buffers
                 /\ state' = [state EXCEPT !.stepRequested = FALSE]
           /\ (last'.op = "timer" /\ last'.ran) =>
                 /\ {state.sourcePositions, state.targetPositions}
                        \subseteq alive(buffers)
                 /\ DOMAIN buffers' = DOMAIN buffers
                 /\ \A h \in DOMAIN buffers :
                        h \notin {state.sourcePositions, state.targetPositions}
                            => buffers'[h] = buffers[h]
       ]_vars

\* a callback scheduled while the layer was live has fired after
\* finalizeState released the buffers
NoUseAfterDestroyWitness ==
    /\ lifecycle = "finalized"
    /\ last.op = "timer" /\ ~last.ran
    /\ state.colors # NoBuffer
    /\ timers = 0

-----------------------------------------------------------------------------
(* C6 *)

\* whether the step just taken released the buffers
releases ==
    \/ last'.op = "finalizeState"
    \/ /\ last'.op = "updateState"
       /\ props'.numParticles = 0 \/ props'.maxAge = 0 \/ props'.width = 0

\* C6: every release (finalizeState, or updateState with invalid props)
\* leaves the layer uninitialized with no live buffer, destroys no buffer
\* twice and fails on none, and on an uninitialized layer (released before,
\* or never allocated) it changes nothing.
DeallocateIdempotent ==
    /\ faults = {}
    /\ [][ releases =>
             /\ ~state'.initialized
             /\ alive(buffers') = {}
             /\ faults' \cap {"doubleDestroy", "TypeError"} = {}
             /\ ~state.initialized =>
                   /\ state' = state
                   /\ buffers' = buffers
                   /\ timers' = timers
       ]_vars

\* finalizeState has released a layer that an invalid prop update had
\* released already
DeallocateIdempotentWitness ==
    /\ lifecycle = "finalized"
    /\ last.op = "finalizeState" /\ ~last.before /\ ~last.changed
    /\ invalid(props)
    /\ state.colors # NoBuffer

-----------------------------------------------------------------------------
(* C7 *)

\* C7: while numParticles = 0 the layer is uninitialized and owns no live
\* buffer, whichever handler reached the allocation.
NoAllocationWithoutParticles ==
    props.numParticles = 0 => (~state.initialized /\ alive(buffers) = {})

-----------------------------------------------------------------------------
(* C8 *)

\* whether every position of data from index lo to index hi is the sentinel
allSentinel(data, lo, hi) == \A i \in lo..hi : at(data, i) = Sentinel

\* C8: with numParticles = 4 and maxAge = 3 the allocated layer has
\* numInstances = 12 and numAgedInstances = 8 and two position buffers of 12
\* positions; before the first step that runs all 12 positions of both are
\* (0,0,0); after it source positions 1..4 are the kernel's output and source
\* positions 5..12 are (0,0,0).
EndToEndLayout ==
    state.initialized =>
        /\ state.numInstances = 12
        /\ state.numAgedInstances = 8
        /\ Len(sourceData) = 12 /\ Len(targetData) = 12
        /\ ticks = 0 => allSentinel(sourceData, 1, 12) /\ allSentinel(targetData, 1, 12)
        /\ ticks = 1 => /\ last.ran => \A i \in 1..4 : sourceData[i] = last.out[i]
                        /\ allSentinel(sourceData, 5, 12)

\* the first step has run and the kernel advected the first and the last
\* particle and left the two between them at the sentinel
EndToEndLayoutWitness ==
    /\ state.initialized /\ ticks = 1 /\ last.ran
    /\ at(sourceData, 1) = Advected /\ at(sourceData, 4) = Advected
    /\ at(sourceData, 2) = Sentinel /\ at(sourceData, 3) = Sentinel

-----------------------------------------------------------------------------
(* C9 *)

\* C9: in every initialized state both position buffers have exactly
\* numInstances positions, and numInstances = numParticles * maxAge of the
\* props the layer was allocated with, which are the props it has.
ConstantPopulation ==
    state.initialized =>
        /\ state.numInstances = props.numParticles * props.maxAge
        /\ Len(sourceData) = state.numInstances
        /\ Len(targetData) = state.numInstances

\* a step has run the kernel on one particle with three cohorts, after a
\* clear at an earlier time
ConstantPopulationWitness ==
    /\ state.initialized /\ last.ran
    /\ props.numParticles = 1 /\ props.maxAge = 3
    /\ state.previousTime = 0
    /\ Len(sourceData) = 3 /\ Len(targetData) = 3
    /\ at(sourceData, 1) = Advected

-----------------------------------------------------------------------------
(* C10 *)

\* C10: an updateState whose props differ from the old ones in image,
\* numParticles, maxAge or width, and are valid with a texture for image,
\* leaves the layer initialized with two position buffers of the new
\* numParticles * maxAge positions, all (0,0,0), previousTime = 0 and
\* previousViewportZoom = 0, and no live buffer but these two and the colors.
RebuildPolicy ==
    [][ (/\ last'.op = "updateState"
         /\ \/ props'.image # props.image
            \/ props'.numParticles # props.numParticles
            \/ props'.maxAge # props.maxAge
            \/ props'.width # props.width
         /\ props'.numParticles > 0 /\ props'.maxAge > 0 /\ props'.width > 0
         /\ isTexture(props'.image)) =>
          LET n == props'.numParticles * props'.maxAge
              source == dataOf(buffers', state'.sourcePositions)
              target == dataOf(buffers', state'.targetPositions)
          IN  /\ state'.initialized
              /\ state'.numInstances = n
              /\ Len(source) = n /\ Len(target) = n
              /\ allSentinel(source, 1, n) /\ allSentinel(target, 1, n)
              /\ state'.previousTime = 0
              /\ state'.previousViewportZoom = 0
              /\ state'.texture = props'.image
              /\ alive(buffers') = {state'.sourcePositions, state'.targetPositions,
                                    state'.colors}
              /\ Cardinality(alive(buffers')) = 3
      ]_vars

\* a change of maxAge has rebuilt a layer whose buffers held a trail
RebuildPolicyWitness ==
    /\ last.op = "updateState" /\ last.before /\ last.dirty /\ last.changed
    /\ state.initialized
    /\ props.maxAge = 2
    /\ state.texture = props.image

-----------------------------------------------------------------------------
(* Specification: a layer whose host changes the props read live *)

LiveHistory == 3

\* another color than the default
OTHER_COLOR == <<255, 0, 0, 255>>

\* the props updateState does not test: the color, the three the tick hands
\* to the kernel as uniforms (speedFactor, bounds, imageUnscale), and animate
SpeedFactors == {1, 2}
Bounds == {<<-180, -90, 180, 90>>, <<0, 0, 90, 45>>}
ImageUnscales == {"null", "range"}

LiveProps ==
    { p \in [image : {"url", "texA"}, numParticles : 1..LiveHistory,
             maxAge : 1..LiveHistory, width : {1}, animate : BOOLEAN,
             color : {DEFAULT_COLOR}, speedFactor : {1},
             bounds : {<<-180, -90, 180, 90>>}, imageUnscale : {"null"}] :
        bounded(p, LiveHistory) }

\* the host hands over the props with one of the live ones changed
liveUpdates(p) ==
    { [p EXCEPT !.color = c] : c \in {DEFAULT_COLOR, OTHER_COLOR} }
        \cup { [p EXCEPT !.speedFactor = f] : f \in SpeedFactors }
        \cup { [p EXCEPT !.bounds = b] : b \in Bounds }
        \cup { [p EXCEPT !.imageUnscale = u] : u \in ImageUnscales }
        \cup { [p EXCEPT !.animate = an] : an \in BOOLEAN }

InitLive ==
    /\ props \in LiveProps
    /\ state = EmptyState
    /\ buffers = <<>>
    /\ timers = 0
    /\ lifecycle = "constructed"
    /\ faults = {}
    /\ last = NoOp
    /\ ticks = 0
    /\ markerSlot = 0

updateLive ==
    /\ lifecycle = "initialized"
    /\ \E q \in liveUpdates(props) :
        /\ props' = q
        /\ Apply(updateStateOp(Machine, q, props), "updateState", <<>>, 0, 0)
    /\ UNCHANGED <<lifecycle, ticks, markerSlot>>

NextLive ==
    \/ initializeState
    \/ updateLive
    \/ step
    \/ clear

SpecLive == InitLive /\ [][NextLive]_vars

-----------------------------------------------------------------------------
(* C11 *)

\* C11: an updateState whose props are valid and have the image,
\* numParticles, maxAge and width of the old ones (so that only speedFactor,
\* bounds, imageUnscale, color or animate changed) leaves the whole layer
\* state (initialized, the source and target roles, previousTime,
\* previousViewportZoom) and every buffer (both position buffers and the
\* color buffer) as they were.
NoRebuildOnLiveProps ==
    [][ (/\ last'.op = "updateState"
         /\ props'.image = props.image
         /\ props'.numParticles = props.numParticles
         /\ props'.maxAge = props.maxAge
         /\ props'.width = props.width
         /\ props'.numParticles > 0 /\ props'.maxAge > 0 /\ props'.width > 0) =>
          /\ state' = state
          /\ buffers' = buffers
          /\ faults' = faults
      ]_vars

\* the color has changed on a layer whose buffers hold a trail: the update
\* changed nothing, and the color buffer still holds the ramp of the color
\* the layer was allocated with
NoRebuildOnLivePropsWitness ==
    /\ last.op = "updateState" /\ last.before /\ last.dirty /\ ~last.changed
    /\ state.initialized
    /\ props.color = OTHER_COLOR /\ props.speedFactor = 2
    /\ dataOf(buffers, state.colors)
           = colorRamp(DEFAULT_COLOR, props.numParticles, props.maxAge,
                       state.numInstances)

-----------------------------------------------------------------------------
(* C12 *)

\* C12: clear on an initialized layer leaves the state as it was
\* (initialized, the buffer handles and their roles, previousTime,
\* previousViewportZoom, stepRequested), creates and destroys no buffer,
\* leaves the color buffer and the pending callbacks as they were, and leaves
\* both position buffers at their length with the sentinel in every slot;
\* clear on an uninitialized layer changes nothing; neither raises a fault.
ClearKeepsEngine ==
    [][ last'.op = "clear" =>
          /\ state' = state
          /\ timers' = timers
          /\ faults' = faults
          /\ IF state.initialized
             THEN /\ DOMAIN buffers' = DOMAIN buffers
                  /\ \A h \in DOMAIN buffers :
                        /\ buffers'[h].destroyed = buffers[h].destroyed
                        /\ Len(buffers'[h].data) = Len(buffers[h].data)
                        /\ h \notin {state.sourcePositions, state.targetPositions}
                              => buffers'[h] = buffers[h]
                  /\ state.sourcePositions \in alive(buffers)
                  /\ state.targetPositions \in alive(buffers)
                  /\ LET source == dataOf(buffers', state.sourcePositions)
                         target == dataOf(buffers', state.targetPositions)
                     IN  /\ Len(source) = state.numInstances
                         /\ Len(target) = state.numInstances
                         /\ allSentinel(source, 1, Len(source))
                         /\ allSentinel(target, 1, Len(target))
             ELSE buffers' = buffers
      ]_vars

\* clear has emptied a trail of three cohorts while a callback was pending,
\* after a step at a time other than 0
ClearKeepsEngineWitness ==
    /\ last.op = "clear" /\ last.before /\ last.dirty /\ last.changed
    /\ state.initialized /\ state.stepRequested /\ timers = 1
    /\ state.previousTime # 0
    /\ props.maxAge = 3
    /\ Len(targetData) = 3

-----------------------------------------------------------------------------
(* Specification: a layer whose host hands it counts and widths of any sign *)

SignedCounts == {-1, 0, 1, 2}
SignedWidths == {-1, 0, 1}

SignedProps ==
    [image : {"texA"}, numParticles : SignedCounts, maxAge : SignedCounts,
     width : SignedWidths, animate : {FALSE}, color : {DEFAULT_COLOR}]

\* the host hands over the props with one count or the width changed
signedUpdates(p) ==
    { [p EXCEPT !.numParticles = n] : n \in SignedCounts }
        \cup { [p EXCEPT !.maxAge = a] : a \in SignedCounts }
        \cup { [p EXCEPT !.width = w] : w \in SignedWidths }

\* the layer is constructed with valid props
InitSigned ==
    /\ props \in { p \in SignedProps :
                     p.numParticles > 0 /\ p.maxAge > 0 /\ p.width > 0 }
    /\ state = EmptyState
    /\ buffers = <<>>
    /\ timers = 0
    /\ lifecycle = "constructed"
    /\ faults = {}
    /\ last = NoOp
    /\ ticks = 0
    /\ markerSlot = 0

updateSigned ==
    /\ lifecycle = "initialized"
    /\ \E q \in signedUpdates(props) :
        /\ props' = q
        /\ Apply(updateStateOp(Machine, q, props), "updateState", <<>>, 0, 0)
    /\ UNCHANGED <<lifecycle, ticks, markerSlot>>

NextSigned ==
    \/ initializeState
    \/ updateSigned
    \/ step
    \/ clear
    \/ draw

SpecSigned == InitSigned /\ [][NextSigned]_vars

-----------------------------------------------------------------------------
(* C13 *)

\* whether a count or the width of the props is zero or negative
nonPositive(p) == p.numParticles <= 0 \/ p.maxAge <= 0 \/ p.width <= 0

\* C13: every updateState whose numParticles, maxAge or width is zero or
\* negative raises no error and leaves the layer uninitialized with no live
\* buffer; while the props are so, step, clear and draw change nothing; and
\* an updateState to positive values leaves the layer initialized.
InvalidConfigurationReleases ==
    [][ /\ (last'.op = "updateState" /\ nonPositive(props')) =>
              /\ ~state'.initialized
              /\ alive(buffers') = {}
              /\ faults' = faults
        /\ (last'.op \in {"step", "clear", "draw"} /\ nonPositive(props)) =>
              /\ state' = state
              /\ buffers' = buffers
              /\ faults' = faults
        /\ (last'.op = "updateState" /\ ~nonPositive(props')
               /\ nonPositive(props)) =>
              state'.initialized
      ]_vars

-----------------------------------------------------------------------------
(* The viewport functions.  Degrees are whole numbers. *)

\* the % of JavaScript: the remainder has the sign of the dividend
remainder(x, y) == IF x >= 0 THEN x % y ELSE 0 - ((0 - x) % y)

\* the remainder alone, without the second pass that makes it non-negative
moduloTruncated(x, y) == remainder(x, y)

\* modulo
modulo(x, y) == remainder(remainder(x, y) + y, y)

\* the wrap without the step that lifts a longitude below minLng
wrapLongitudeUnlifted(lng, minLng) == modulo(lng + 180, 360) - 180

\* wrapLongitude; minLng is <<n>> for the number n and <<>> for undefined
wrapLongitude(lng, minLng) ==
    LET wrappedLng == modulo(lng + 180, 360) - 180
    IN  IF minLng # <<>> /\ wrappedLng < minLng[1]
        THEN wrappedLng + 360
        ELSE wrappedLng

\* Math.max and Math.min
max(a, b) == IF a >= b THEN a ELSE b
min(a, b) == IF a <= b THEN a ELSE b

\* wrapBounds
wrapBounds(bounds) ==
    LET minLng == IF bounds[3] - bounds[1] < 360
                  THEN wrapLongitude(bounds[1], <<>>) ELSE -180
        maxLng == IF bounds[3] - bounds[1] < 360
                  THEN wrapLongitude(bounds[3], <<minLng>>) ELSE 180
        minLat == max(bounds[2], -90)
        maxLat == min(bounds[4], 90)
    IN  <<minLng, minLat, maxLng, maxLat>>

-----------------------------------------------------------------------------
(* Specification: getViewportBounds on the boxes a viewport can report *)

MaxLngSteps == 40

\* longitudes every 10 degrees up to MaxLngSteps steps either side of 0, and
\* the ones next to the antimeridian
Lngs == { 10 * d : d \in (0 - MaxLngSteps)..MaxLngSteps } \cup {-181, -179, 179, 181}

\* south and north of a box: inside the range, on it, across it, beyond it
LatPairs == {<<-10, 10>>, <<-90, 90>>, <<-100, 100>>, <<91, 100>>, <<-100, -91>>}

BBoxes == { <<west, lat[1], east, lat[2]>> : west \in Lngs, east \in Lngs, lat \in LatPairs }

\* the viewport reports a box
InitWrap ==
    /\ props \in { p \in TrailProps : p.numParticles = 1 /\ p.maxAge = 1 }
    /\ state = EmptyState
    /\ buffers = <<>>
    /\ timers = 0
    /\ lifecycle = "constructed"
    /\ faults = {}
    /\ \E b \in BBoxes : last = [op |-> "getBounds", bounds |-> b]
    /\ ticks = 0
    /\ markerSlot = 0

\* getViewportBounds(viewport)
getViewportBounds ==
    /\ last.op = "getBounds"
    /\ last' = [op |-> "getViewportBounds", bounds |-> last.bounds,
                wrapped |-> wrapBounds(last.bounds)]
    /\ UNCHANGED <<props, state, buffers, timers, lifecycle, faults, ticks, markerSlot>>

NextWrap == getViewportBounds

SpecWrap == InitWrap /\ [][NextWrap]_vars

-----------------------------------------------------------------------------
(* C14 *)

\* C14: for a box [west, south, east, north] with east - west < 360 (negative
\* differences included) wrapBounds gives -180 <= west' < 180 and
\* east' >= west'; for a box with east - west >= 360 it gives west' = -180 and
\* east' = 180; in both cases south' = max(south, -90) and
\* north' = min(north, 90); and wrapBounds([-200, -100, 200, 100]) is
\* [-180, -90, 180, 90].
WrapBoundsPostcondition ==
    last.op = "getViewportBounds" =>
        LET b == last.bounds
            w == last.wrapped
        IN  /\ IF b[3] - b[1] < 360
               THEN -180 <= w[1] /\ w[1] < 180 /\ w[3] >= w[1]
               ELSE w[1] = -180 /\ w[3] = 180
            /\ w[2] = (IF b[2] >= -90 THEN b[2] ELSE -90)
            /\ w[4] = (IF b[4] <= 90 THEN b[4] ELSE 90)
            /\ b = <<-200, -100, 200, 100>> => w = <<-180, -90, 180, 90>>

\* a box that ends west of where it starts, with latitudes out of range, has
\* been wrapped: the east was lifted by a turn
WrapBoundsWitness ==
    /\ last.op = "getViewportBounds"
    /\ last.bounds = <<190, -100, -200, 100>>
    /\ last.wrapped = <<-170, -90, 160, 90>>

-----------------------------------------------------------------------------
(* C15 *)

\* C15: for a box with east - west < 360 wrapBounds gives
\* 0 <= east' - west' < 360 with east' - west' congruent to east - west
\* modulo 360, and equal to it when east - west >= 0; and
\* wrapBounds([170, -10, -170, 10]) has west' = 170 and east' = 190.
WrapBoundsKeepsSpan ==
    (last.op = "getViewportBounds" /\ last.bounds[3] - last.bounds[1] < 360) =>
        LET span == last.bounds[3] - last.bounds[1]
            span2 == last.wrapped[3] - last.wrapped[1]
        IN  /\ 0 <= span2 /\ span2 < 360
            /\ (span2 - span) % 360 = 0
            /\ span >= 0 => span2 = span
            /\ last.bounds = <<170, -10, -170, 10>> =>
                  last.wrapped[1] = 170 /\ last.wrapped[3] = 190

\* the box across the antimeridian has been wrapped to a span of 20
WrapBoundsKeepsSpanWitness ==
    /\ last.op = "getViewportBounds"
    /\ last.bounds = <<170, -10, -170, 10>>
    /\ last.wrapped = <<170, -10, 190, 10>>

-----------------------------------------------------------------------------
(* Specification: the scheduler of a one-particle layer, every scheduled
   callback firing in the end *)

\* the host hands over the props with the image, numParticles or animate
\* changed: the texture arrives or goes, the configuration turns invalid or
\* valid
schedUpdates(p) ==
    { [p EXCEPT !.image = im] : im \in {"url", "texA", "texB"} }
        \cup { [p EXCEPT !.numParticles = n] : n \in {0, 1} }
        \cup { [p EXCEPT !.animate = an] : an \in BOOLEAN }

InitSched ==
    /\ props \in { p \in Props : /\ p.numParticles = 1 /\ p.maxAge = 1
                                 /\ p.width = 1 /\ p.image \in {"url", "texA"} }
    /\ state = EmptyState
    /\ buffers = <<>>
    /\ timers = 0
    /\ lifecycle = "constructed"
    /\ faults = {}
    /\ last = NoOp
    /\ ticks = 0
    /\ markerSlot = 0

updateSched ==
    /\ lifecycle = "initialized"
    /\ \E q \in schedUpdates(props) :
        /\ props' = q
        /\ Apply(updateStateOp(Machine, q, props), "updateState", <<>>, 0, 0)
    /\ UNCHANGED <<lifecycle, ticks, markerSlot>>

NextSched ==
    \/ initializeState
    \/ updateSched
    \/ finalizeState
    \/ draw
    \/ requestStep
    \/ timerFires

\* setTimeout: a scheduled callback fires after 1000 / FPS ms
SpecSched == InitSched /\ [][NextSched]_vars /\ WF_vars(timerFires)

-----------------------------------------------------------------------------
(* C16 *)

-----------------------------------------------------------------------------
(* C17 *)

\* C17: in every initialized state the transform reads the source buffer and
\* feeds back into the target buffer, and the two are different live
\* buffers; a step or callback that runs the kernel exchanges source and
\* target, and a stale step, a step on an uninitialized layer and clear
\* leave them as they are.
PingPongBinding ==
    /\ ~state.initialized
    /\ [][ /\ state'.initialized =>
                 /\ state'.transform.exists
                 /\ state'.transform.sourcePosition = state'.sourcePositions
                 /\ state'.transform.targetPosition = state'.targetPositions
                 /\ state'.sourcePositions # state'.targetPositions
                 /\ {state'.sourcePositions, state'.targetPositions}
                        \subseteq alive(buffers')
           /\ last'.op \in {"step", "timer", "clear"} =>
                 IF last'.ran
                 THEN /\ state'.sourcePositions = state.targetPositions
                      /\ state'.targetPositions = state.sourcePositions
                 ELSE /\ state'.sourcePositions = state.sourcePositions
                      /\ state'.targetPositions = state.targetPositions
       ]_vars

\* two steps have run one after the other on a three-cohort trail: the
\* source is the buffer that was created first, again
PingPongBindingWitness ==
    /\ last.op = "step" /\ last.ran /\ last.dirty
    /\ state.initialized
    /\ props.maxAge = 3
    /\ state.sourcePositions < state.targetPositions
    /\ at(sourceData, 2) = Advected /\ at(sourceData, 3) = Sentinel
    /\ at(targetData, 1) = Advected

-----------------------------------------------------------------------------
(* C18 *)

\* C18: in a step that runs the kernel on a valid configuration, the copy is
\* within both buffers and ends at the end of the target
\* (numParticles + numAgedInstances = numInstances, with
\* numAgedInstances = numParticles * (maxAge - 1)); it leaves the buffer it
\* reads as it was; in the buffer it writes, cohort 0 is the kernel's output
\* and positions numParticles .. numInstances - 1 are positions
\* 0 .. numAgedInstances - 1 of the buffer read, taken before the swap; with
\* maxAge = 1 nothing is copied.
AgeShiftRange ==
    [][ last'.ran =>
          LET read == sourceData
              readAfter == dataOf(buffers', state.sourcePositions)
              written == dataOf(buffers', state.targetPositions)
              np == props.numParticles
          IN  /\ "copyOutOfRange" \notin faults'
              /\ state.numAgedInstances = np * (props.maxAge - 1)
              /\ np + state.numAgedInstances = state.numInstances
              /\ Len(written) = state.numInstances
              /\ readAfter = read
              /\ \A i \in 1..np : at(written, i) = at(last'.out, i)
              /\ \A i \in 1..state.numAgedInstances :
                    at(written, np + i) = at(read, i)
              /\ props.maxAge = 1 => written = last'.out
      ]_vars

\* a step has run on three particles with one cohort, where nothing is
\* copied: the source is the kernel's output and the target the output of
\* the step before
AgeShiftRangeWitness ==
    /\ last.ran /\ last.dirty
    /\ props.numParticles = 3 /\ props.maxAge = 1
    /\ state.numAgedInstances = 0
    /\ sourceData = <<Advected, Sentinel, Advected>>
    /\ targetData = <<Sentinel, Advected, Sentinel>>

-----------------------------------------------------------------------------
(* C19 *)

\* whether cohort k + 1 of the source is cohort k of the target, slot for
\* slot, for every k from 0 to maxAge - 2
joined(source, target) ==
    \A k \in 0..(props.maxAge - 2) : \A p \in 1..props.numParticles :
        at(source, slotOf(k + 1, p)) = at(target, slotOf(k, p))

\* C19: in every initialized state reached by initializeState, step and
\* clear, cohort k + 1 of the source buffer equals cohort k of the target
\* buffer in every slot, for 0 <= k <= maxAge - 2; and after every step that
\* runs the kernel the target buffer holds what the source buffer held
\* before the step.
TrailContinuity ==
    /\ [](state.initialized => joined(sourceData, targetData))
    /\ [][ last'.ran =>
              dataOf(buffers', state'.targetPositions) = sourceData ]_vars

\* two particles, two cohorts: the second step has run, and the older cohort
\* of the source is the newer cohort of the target
TrailContinuityWitness ==
    /\ last.ran /\ last.dirty
    /\ state.initialized
    /\ props.numParticles = 2 /\ props.maxAge = 2
    /\ sourceData = <<Advected, Sentinel, Sentinel, Advected>>
    /\ targetData = <<Sentinel, Advected, Advected, Sentinel>>

-----------------------------------------------------------------------------
(* C20 *)

\* C20: in every state the buffers created and not destroyed are the two
\* position buffers and the color buffer of the state when the layer is
\* initialized, three in number, and none when it is not; no buffer has been
\* destroyed twice; and none is alive once the layer is finalized.
BufferOwnershipBalance ==
    /\ IF state.initialized
       THEN /\ alive(buffers) = {state.sourcePositions, state.targetPositions,
                                 state.colors}
            /\ Cardinality(alive(buffers)) = 3
       ELSE alive(buffers) = {}
    /\ "doubleDestroy" \notin faults
    /\ lifecycle = "finalized" => alive(buffers) = {}

\* a layer that held a trail has been finalized with a callback pending:
\* its color buffer is destroyed and no buffer is alive
BufferOwnershipBalanceWitness ==
    /\ lifecycle = "finalized"
    /\ last.op = "finalizeState" /\ last.before /\ last.dirty
    /\ timers = 1
    /\ state.colors \in DOMAIN buffers
    /\ alive(buffers) = {}

====
